---- MODULE Spec2Model ----
(***************************************************************************)
(* A model of the two applications of the repository:                      *)
(*   - the receipt scanner (src/TestApp/App.tsx): the amount extraction    *)
(*     heuristic, the expense list, its total and its persistence;         *)
(*   - the anime converter (src/unnamed/part_000): model loading and the   *)
(*     placeholder inference pipeline.                                     *)
(*                                                                         *)
(* Strings are sequences of one-character strings, so that the regular     *)
(* expressions, parseFloat and Number.prototype.toString are computed      *)
(* character by character.  Amounts are counted in cents: every amount     *)
(* the model reads has at most two fraction digits.                        *)
(***************************************************************************)
EXTENDS Integers, Sequences, FiniteSets, TLC

\* --------------------------------------------------------------------------
\* State
\* --------------------------------------------------------------------------

\* The receipt scanner (src/TestApp/App.tsx).
VARIABLES
    receiptPhoto,     \* useState(null): the uri of the receipt photo
    extractedText,    \* useState('')
    detectedAmounts,  \* useState([])
    selectedAmount,   \* useState(''): the text of the Amount field
    merchant,         \* useState(''): the text of the Merchant field
    expenses,         \* useState([])
    totalSpent,       \* useState(0)
    isProcessing,     \* useState(false)
    storage,          \* AsyncStorage, the item under the key 'expenses'
    lastSaved,        \* the list saveExpenses was given when it wrote the item
    requests,         \* AsyncStorage calls not yet answered, oldest first
    dialog,           \* the Add Expense confirmation dialog, when it is open
    ocrRuns,          \* TextRecognition.recognize calls not yet answered
    pickers,          \* camera and gallery pickers launched and not yet closed
    scansLeft,        \* how many more recognizer calls the behaviour makes
    addsLeft,         \* how many more expenses the behaviour adds
    restartsLeft,     \* how many more times the app is started again
    openLimit         \* how many pickers the behaviour has open at a time

scannerVars == <<receiptPhoto, extractedText, detectedAmounts, selectedAmount,
                 merchant, expenses, totalSpent, isProcessing, storage,
                 lastSaved, requests, dialog, ocrRuns, pickers, scansLeft,
                 addsLeft, restartsLeft, openLimit>>

\* extractAmountsFromText called on its own.
VARIABLES
    textArg,   \* the argument of extractAmountsFromText
    returned   \* what the call returned, once it has

extractVars == <<textArg, returned>>

\* The anime converter (src/unnamed/part_000).
VARIABLES
    modelStatus,     \* useState('Loading AI model...')
    session,         \* useState(null)
    originalPhoto,   \* useState(null)
    processedPhoto,  \* useState(null)
    isConverting,    \* useState(false), the converter's isProcessing
    loadModel,       \* the await loadModel is at
    launched,        \* the pickers launched: the session each callback sees
    inference,       \* processImageWithAI calls not yet returned, by path
    runsLeft         \* how many more calls the behaviour makes

animeVars == <<modelStatus, session, originalPhoto, processedPhoto,
               isConverting, loadModel, launched, inference, runsLeft>>

vars == <<scannerVars, extractVars, animeVars>>

\* What the operations of the scanner, of the converter and the call of
\* extractAmountsFromText leave alone.
notScanner == <<extractVars, animeVars>>
notConverter == <<scannerVars, extractVars>>
notExtract == <<scannerVars, animeVars>>

\* --------------------------------------------------------------------------
\* Characters and strings
\* --------------------------------------------------------------------------

\* What reading past either end of a string yields.
NoChar == ""

CharAt(s, i) ==
    IF i >= 1 /\ i <= Len(s) THEN s[i] ELSE NoChar

DigitChars == <<"0", "1", "2", "3", "4", "5", "6", "7", "8", "9">>

\* \d
IsDigit(c) ==
    \E k \in 1..10 : DigitChars[k] = c

DigitValue(c) ==
    (CHOOSE k \in 1..10 : DigitChars[k] = c) - 1

\* \s (the white space the model's texts can hold)
IsSpace(c) ==
    c \in {" ", "\n", "\t"}

UpperCase == <<"A", "B", "C", "D", "E", "F", "G", "H", "I", "J", "K", "L", "M",
               "N", "O", "P", "Q", "R", "S", "T", "U", "V", "W", "X", "Y", "Z">>

LowerCase == <<"a", "b", "c", "d", "e", "f", "g", "h", "i", "j", "k", "l", "m",
               "n", "o", "p", "q", "r", "s", "t", "u", "v", "w", "x", "y", "z">>

\* Case folding of the regular expression flag i.
ToLower(c) ==
    IF \E k \in 1..26 : UpperCase[k] = c
    THEN LowerCase[CHOOSE k \in 1..26 : UpperCase[k] = c]
    ELSE c

\* \w
IsWord(c) ==
    \/ IsDigit(c)
    \/ c = "_"
    \/ \E k \in 1..26 : UpperCase[k] = c \/ LowerCase[k] = c

RECURSIVE Flatten(_)
Flatten(parts) ==
    IF parts = <<>> THEN <<>> ELSE Head(parts) \o Flatten(Tail(parts))

\* --------------------------------------------------------------------------
\* Numbers: parseFloat and Number.prototype.toString
\* --------------------------------------------------------------------------

\* A JavaScript number: finite (counted in cents), NaN or an infinity.
Finite(c) == [kind |-> "finite", cents |-> c]
NaN == [kind |-> "NaN", cents |-> 0]
Infinity == [kind |-> "Infinity", cents |-> 0]
NegInfinity == [kind |-> "-Infinity", cents |-> 0]

IsNaN(n) == n.kind = "NaN"

\* n > 0
IsPositive(n) ==
    \/ n.kind = "Infinity"
    \/ n.kind = "finite" /\ n.cents > 0

InfinityLiteral == <<"I", "n", "f", "i", "n", "i", "t", "y">>

RECURSIVE DigitRun(_, _, _)
\* How many digits s holds from position i on, max at most.
DigitRun(s, i, max) ==
    IF max = 0 \/ ~IsDigit(CharAt(s, i)) THEN 0
    ELSE 1 + DigitRun(s, i + 1, max - 1)

\* The greatest whole part the model tells apart: a number of MaxWhole or
\* more is held as MaxWhole (the code compares amounts with 0 and with
\* 10000 only, and the integers of the model are 32 bits wide).
MaxWhole == 20000000

RECURSIVE DigitsValue(_, _, _)
\* The value of the n digits of s from position i on.
DigitsValue(s, i, n) ==
    IF n = 0 THEN 0
    ELSE LET v == 10 * DigitsValue(s, i, n - 1) + DigitValue(s[i + n - 1])
         IN  IF v > MaxWhole THEN MaxWhole ELSE v

RECURSIVE SkipSpaces(_, _)
SkipSpaces(s, i) ==
    IF IsSpace(CharAt(s, i)) THEN SkipSpaces(s, i + 1) ELSE i

\* parseFloat: leading white space, a sign, then Infinity or the longest
\* decimal literal; NaN when neither is there.  What follows the literal is
\* ignored.  (Exponents are not read: no string of the model holds one.)
ParseFloat(s) ==
    LET i0 == SkipSpaces(s, 1)
        neg == CharAt(s, i0) = "-"
        i1 == IF CharAt(s, i0) \in {"-", "+"} THEN i0 + 1 ELSE i0
        isInf == /\ i1 + 7 <= Len(s)
                 /\ SubSeq(s, i1, i1 + 7) = InfinityLiteral
        nInt == DigitRun(s, i1, Len(s))
        hasDot == CharAt(s, i1 + nInt) = "."
        nFrac == IF hasDot THEN DigitRun(s, i1 + nInt + 1, Len(s)) ELSE 0
        whole == DigitsValue(s, i1, nInt)
        frac == IF nFrac = 0 THEN 0
                ELSE IF nFrac = 1 THEN 10 * DigitValue(s[i1 + nInt + 1])
                ELSE DigitsValue(s, i1 + nInt + 1, 2)
        mag == 100 * whole + frac
    IN  IF isInf THEN (IF neg THEN NegInfinity ELSE Infinity)
        ELSE IF nInt + nFrac = 0 THEN NaN
        ELSE Finite(IF neg THEN 0 - mag ELSE mag)

RECURSIVE NatToString(_)
NatToString(n) ==
    IF n < 10 THEN <<DigitChars[n + 1]>>
    ELSE NatToString(n \div 10) \o <<DigitChars[(n % 10) + 1]>>

\* Number.prototype.toString of a non-negative amount of cents: the whole
\* part, then the fraction without its trailing zero.
CentsToString(c) ==
    LET f == c % 100
    IN  NatToString(c \div 100) \o
        (IF f = 0 THEN <<>>
         ELSE IF f % 10 = 0 THEN <<".", DigitChars[(f \div 10) + 1]>>
         ELSE <<".", DigitChars[(f \div 10) + 1], DigitChars[(f % 10) + 1]>>)

\* --------------------------------------------------------------------------
\* extractAmountsFromText (src/TestApp/App.tsx, lines 144-174)
\* --------------------------------------------------------------------------

\* The result of trying a pattern at one position: the text of capture group
\* 1 and the position after the match (the next lastIndex).
NoMatch == [found |-> FALSE, cap |-> <<>>, end |-> 0]

Match(c, e) == [found |-> TRUE, cap |-> c, end |-> e]

\* ,\d{3}
IsCommaGroup(s, j) ==
    /\ CharAt(s, j) = ","
    /\ IsDigit(CharAt(s, j + 1))
    /\ IsDigit(CharAt(s, j + 2))
    /\ IsDigit(CharAt(s, j + 3))

RECURSIVE CommaGroups(_, _)
\* How many ,\d{3} groups follow each other from position j on.
CommaGroups(s, j) ==
    IF IsCommaGroup(s, j) THEN 1 + CommaGroups(s, j + 4) ELSE 0

\* \d{1,max}(?:,\d{3})* from position i on: the positions after each way of
\* matching it, in the order the backtracking matcher tries them (both
\* quantifiers are greedy: most digits first and, for each number of digits,
\* most groups first).
NumberEnds(s, i, max) ==
    LET EndsFor(d) ==
            LET g == CommaGroups(s, i + d)
            IN  [k \in 1..(g + 1) |-> i + d + 4 * (g + 1 - k)]
        RECURSIVE Build(_)
        Build(d) == IF d = 0 THEN <<>> ELSE EndsFor(d) \o Build(d - 1)
    IN  Build(DigitRun(s, i, max))

\* \d{1,max} from position i on, most digits first.
DigitEnds(s, i, max) ==
    LET n == DigitRun(s, i, max)
    IN  [k \in 1..n |-> i + n + 1 - k]

\* The first of the candidate positions that lets the rest of the pattern
\* match, 0 when none does.
FirstEnd(ends, ok) ==
    LET good == {k \in 1..Len(ends) : ends[k] \in ok}
    IN  IF good = {} THEN 0
        ELSE ends[CHOOSE k \in good : \A m \in good : k <= m]

\* \.\d{2} at position q
CentsAt(s, q) ==
    /\ CharAt(s, q) = "."
    /\ IsDigit(CharAt(s, q + 1))
    /\ IsDigit(CharAt(s, q + 2))

\* /\$(\d{1,3}(?:,\d{3})*\.\d{2})/g at position i
Pattern1At(s, i) ==
    IF CharAt(s, i) # "$" THEN NoMatch
    ELSE LET ends == NumberEnds(s, i + 1, 3)
             p == FirstEnd(ends, {q \in 1..(Len(s) + 1) : CentsAt(s, q)})
         IN  IF p = 0 THEN NoMatch
             ELSE Match(SubSeq(s, i + 1, p + 2), p + 3)

\* (?!\.\d) at position q
NoCentsAhead(s, q) ==
    ~(CharAt(s, q) = "." /\ IsDigit(CharAt(s, q + 1)))

\* /\$(\d{1,3}(?:,\d{3})*)(?!\.\d)/g at position i
Pattern2At(s, i) ==
    IF CharAt(s, i) # "$" THEN NoMatch
    ELSE LET ends == NumberEnds(s, i + 1, 3)
             p == FirstEnd(ends, {q \in 1..(Len(s) + 1) : NoCentsAhead(s, q)})
         IN  IF p = 0 THEN NoMatch
             ELSE Match(SubSeq(s, i + 1, p - 1), p)

\* ^ and $ under the flag m
AtLineStart(s, i) ==
    i = 1 \/ CharAt(s, i - 1) = "\n"

AtLineEnd(s, i) ==
    i = Len(s) + 1 \/ CharAt(s, i) = "\n"

\* (\d{1,4}\.\d{2})(?:\s|$) from position i on
Pattern3Body(s, i) ==
    LET ok == {q \in 1..(Len(s) + 1) :
                 /\ CentsAt(s, q)
                 /\ (IsSpace(CharAt(s, q + 3)) \/ AtLineEnd(s, q + 3))}
        p == FirstEnd(DigitEnds(s, i, 4), ok)
    IN  IF p = 0 THEN NoMatch
        ELSE Match(SubSeq(s, i, p + 2),
                   IF IsSpace(CharAt(s, p + 3)) THEN p + 4 ELSE p + 3)

\* /(?:^|\s)(\d{1,4}\.\d{2})(?:\s|$)/gm at position i
Pattern3At(s, i) ==
    LET viaStart == IF AtLineStart(s, i) THEN Pattern3Body(s, i) ELSE NoMatch
        viaSpace == IF IsSpace(CharAt(s, i)) THEN Pattern3Body(s, i + 1)
                    ELSE NoMatch
    IN  IF viaStart.found THEN viaStart ELSE viaSpace

Keywords == << <<"t", "o", "t", "a", "l">>,
               <<"s", "u", "b", "t", "o", "t", "a", "l">>,
               <<"a", "m", "o", "u", "n", "t">>,
               <<"d", "u", "e">> >>

\* Whether the keyword is at position i, whatever its case.
KeywordAt(s, i, kw) ==
    /\ i + Len(kw) - 1 <= Len(s)
    /\ \A k \in 1..Len(kw) : ToLower(s[i + k - 1]) = kw[k]

RECURSIVE SeparatorRun(_, _)
\* [\s:]* from position i on: how many characters it can take.
SeparatorRun(s, i) ==
    IF IsSpace(CharAt(s, i)) \/ CharAt(s, i) = ":"
    THEN 1 + SeparatorRun(s, i + 1)
    ELSE 0

\* [\s:]*\$? from position i on: the positions after each way of matching
\* it, most separators first and, for each, with the $ before without it.
SeparatorEnds(s, i) ==
    LET n == SeparatorRun(s, i)
        EndsFor(r) == IF CharAt(s, i + r) = "$" THEN <<i + r + 1, i + r>>
                      ELSE <<i + r>>
        RECURSIVE Build(_)
        Build(r) == IF r < 0 THEN <<>> ELSE EndsFor(r) \o Build(r - 1)
    IN  Build(n)

\* (\d{1,4}(?:,\d{3})*\.?\d{0,2}) from position i on, where a digit is: every
\* part after the first digit is optional and greedy.
Pattern4Body(s, i) ==
    LET p == NumberEnds(s, i, 4)[1]
        q == IF CharAt(s, p) = "." THEN p + 1 ELSE p
        e == q + DigitRun(s, q, 2)
    IN  Match(SubSeq(s, i, e - 1), e)

\* /(?:total|subtotal|amount|due)[\s:]*\$?(\d{1,4}(?:,\d{3})*\.?\d{0,2})/gi
\* at position i
Pattern4At(s, i) ==
    LET hits == {k \in 1..Len(Keywords) :
                   /\ KeywordAt(s, i, Keywords[k])
                   /\ FirstEnd(SeparatorEnds(s, i + Len(Keywords[k])),
                               {q \in 1..Len(s) : IsDigit(s[q])}) # 0}
    IN  IF hits = {} THEN NoMatch
        ELSE LET k == CHOOSE h \in hits : \A m \in hits : h <= m
                 b == FirstEnd(SeparatorEnds(s, i + Len(Keywords[k])),
                               {q \in 1..Len(s) : IsDigit(s[q])})
             IN  Pattern4Body(s, b)

\* The patterns, in the order of the array.
NumPatterns == 4

PatternAt(n, s, i) ==
    CASE n = 1 -> Pattern1At(s, i)
      [] n = 2 -> Pattern2At(s, i)
      [] n = 3 -> Pattern3At(s, i)
      [] n = 4 -> Pattern4At(s, i)

RECURSIVE ExecAll(_, _, _)
\* The while loop over pattern.exec(text): the captures of the successive
\* matches of pattern n, each search starting where the last match ended.
ExecAll(n, s, i) ==
    IF i > Len(s) THEN <<>>
    ELSE LET m == PatternAt(n, s, i)
         IN  IF m.found THEN <<m.cap>> \o ExecAll(n, s, m.end)
             ELSE ExecAll(n, s, i + 1)

\* match[1].replace(/,/g, '')
RemoveCommas(s) ==
    SelectSeq(s, LAMBDA c : c # ",")

\* The upper limit of the filter, 10000 dollars, in cents.
AmountLimit == 1000000

\* The filter without its two comparisons: !isNaN(numAmount) alone.
IsNumber(n) ==
    ~IsNaN(n)

\* !isNaN(numAmount) && numAmount > 0 && numAmount < 10000
IsReasonable(n) ==
    /\ ~IsNaN(n)
    /\ IsPositive(n)
    /\ n.kind = "finite" /\ n.cents < AmountLimit

\* Array.prototype.push, which keeps every value it is given.
ArrayPush(arr, x) ==
    Append(arr, x)

\* Set.prototype.add: a Set keeps one entry for each value, in the order the
\* values were first added.
SetAdd(set, x) ==
    IF \E k \in 1..Len(set) : set[k] = x THEN set ELSE Append(set, x)

RECURSIVE AddCaptures(_, _)
\* The body of the while loop, for each capture in turn.
AddCaptures(set, caps) ==
    IF caps = <<>> THEN set
    ELSE LET numAmount == ParseFloat(RemoveCommas(Head(caps)))
         IN  AddCaptures(IF IsReasonable(numAmount)
                         THEN SetAdd(set, numAmount.cents) ELSE set,
                         Tail(caps))

RECURSIVE ForEachPattern(_, _, _)
\* patterns.forEach, from pattern n on.
ForEachPattern(set, n, text) ==
    IF n > NumPatterns THEN set
    ELSE ForEachPattern(AddCaptures(set, ExecAll(n, text, 1)), n + 1, text)

\* The comparator of the sort: (a, b) => b - a.
Compare(a, b) == b - a

RECURSIVE Insert(_, _)
\* x put into the sorted array after every element that does not compare
\* after it (the sort is stable).
Insert(sorted, x) ==
    IF sorted = <<>> THEN <<x>>
    ELSE IF Compare(Head(sorted), x) <= 0
         THEN <<Head(sorted)>> \o Insert(Tail(sorted), x)
         ELSE <<x>> \o sorted

RECURSIVE Sort(_)
\* Array.prototype.sort with the comparator.
Sort(arr) ==
    IF arr = <<>> THEN <<>>
    ELSE Insert(Sort(SubSeq(arr, 1, Len(arr) - 1)), arr[Len(arr)])

ExtractAmountsFromText(text) ==
    Sort(ForEachPattern(<<>>, 1, text))

\* Every capture of every pattern, in the order the function meets them.
AllCaptures(text) ==
    ExecAll(1, text, 1) \o ExecAll(2, text, 1) \o ExecAll(3, text, 1)
        \o ExecAll(4, text, 1)

\* --------------------------------------------------------------------------
\* The receipt scanner (src/TestApp/App.tsx): state
\* --------------------------------------------------------------------------

\* The bounds of the model: what one behaviour of Spec does at most, what one
\* behaviour of SpecOCR does at most, the values of the clock, and the
\* pickers open at a time in Spec and in SpecOCR.
MaxScans == 2
MaxAdds == 2
MaxRestarts == 1
MaxScansOCR == 3
MaxAddsOCR == 1
MaxRestartsOCR == 1
MaxClock == 1
MaxPickers == 1
MaxPickersOCR == 2

\* The values Date.now() can return.
Clock == 0..MaxClock

\* null
Null == "null"

\* An optional value: <<>> when absent, <<v>> when present.
None == <<>>
Some(v) == <<v>>

\* The photos the camera and the gallery can return.
Photos == {"file:a"}

\* The texts the recognizer can return (the blocks joined by newlines).
ReceiptTexts == {
    <<"C", "a", "f", "e", "\n", "$", "1", "2", ".", "3", "4">>,
    <<"a", "b">> }

\* What the user can type into the Amount field.
TypedAmounts == {
    <<"0">>,
    InfinityLiteral }

\* What the user can type into the Merchant field.
TypedMerchants == { <<>> }

UnknownMerchant ==
    <<"U", "n", "k", "n", "o", "w", "n", " ", "M", "e", "r", "c", "h", "a", "n", "t">>

FailedToExtract ==
    <<"F", "a", "i", "l", "e", "d", " ", "t", "o", " ", "e", "x", "t", "r", "a", "c", "t", " ", "t", "e", "x", "t", " ", "f", "r", "o", "m", " ", "i",
      "m", "a", "g", "e">>

\* --------------------------------------------------------------------------
\* The receipt scanner: helpers
\* --------------------------------------------------------------------------

\* The sum of two amounts that are finite or Infinity.
Plus(a, b) ==
    IF a.kind = "finite" /\ b.kind = "finite" THEN Finite(a.cents + b.cents)
    ELSE IF a.kind = "NaN" \/ b.kind = "NaN" THEN NaN
    ELSE IF a.kind = "finite" THEN b
    ELSE IF b.kind = "finite" \/ a.kind = b.kind THEN a
    ELSE NaN

\* The amount of a record whose amount JSON could not write: null.
NullAmount == [kind |-> "null", cents |-> 0]

\* expense.amount || 0: null, 0 and NaN are falsy.
OrZero(a) ==
    IF a.kind \in {"null", "NaN"} THEN Finite(0) ELSE a

RECURSIVE Reduce(_, _)
\* expenseList.reduce((sum, expense) => sum + parseFloat(expense.amount || 0), sum)
\* parseFloat of a number is the number: it is written out and read back.
Reduce(expenseList, sum) ==
    IF expenseList = <<>> THEN sum
    ELSE Reduce(Tail(expenseList), Plus(sum, OrZero(Head(expenseList).amount)))

\* The total of the list in the state of the render, whatever list is given.
TotalOfState(expenseList) ==
    Reduce(expenses, Finite(0))

\* calculateTotal: the value it gives to setTotalSpent.
CalculateTotal(expenseList) ==
    Reduce(expenseList, Finite(0))

\* JSON.stringify of a number: a number that is not finite is written null.
StringifyNumber(a) ==
    IF a.kind = "finite" THEN a ELSE NullAmount

\* JSON.stringify(expenseList): the text, held as the value it denotes.
\* Strings and null are written as they are.
JSONStringify(expenseList) ==
    [k \in 1..Len(expenseList) |->
        [expenseList[k] EXCEPT !.amount = StringifyNumber(@)]]

\* JSON.parse of a text JSON.stringify wrote.
JSONParse(text) == text

\* String.prototype.trim
RECURSIVE TrimEnd(_)
TrimEnd(s) ==
    IF s # <<>> /\ IsSpace(s[Len(s)]) THEN TrimEnd(SubSeq(s, 1, Len(s) - 1))
    ELSE s

Trim(s) ==
    LET t == TrimEnd(s)
    IN  SubSeq(t, SkipSpaces(t, 1), Len(t))

RECURSIVE Split(_, _)
\* fullText.split('\n'); cur is the line read so far.
Split(s, cur) ==
    IF s = <<>> THEN <<cur>>
    ELSE IF Head(s) = "\n" THEN <<cur>> \o Split(Tail(s), <<>>)
    ELSE Split(Tail(s), Append(cur, Head(s)))

\* .replace(/[^\w\s&-]/g, '')
RemoveArtifacts(s) ==
    SelectSeq(s, LAMBDA c : IsWord(c) \/ IsSpace(c) \/ c \in {"&", "-"})

RECURSIVE NormalizeSpaces(_)
\* .replace(/\s+/g, ' ')
NormalizeSpaces(s) ==
    IF s = <<>> THEN <<>>
    ELSE IF IsSpace(Head(s))
         THEN <<" ">> \o NormalizeSpaces(SubSeq(s, SkipSpaces(s, 1), Len(s)))
         ELSE <<Head(s)>> \o NormalizeSpaces(Tail(s))

\* The merchant name extractTextFromImage reads from the text: the first
\* line longer than two characters, cleaned; <<>> when there is none.
CleanMerchant(fullText) ==
    LET lines == SelectSeq(Split(fullText, <<>>), LAMBDA l : Len(Trim(l)) > 2)
    IN  IF lines = <<>> THEN <<>>
        ELSE Trim(NormalizeSpaces(RemoveArtifacts(Trim(lines[1]))))

RECURSIVE MathMax(_)
\* Math.max(...amounts) of a non-empty array
MathMax(amounts) ==
    IF Len(amounts) = 1 THEN amounts[1]
    ELSE LET m == MathMax(Tail(amounts))
         IN  IF Head(amounts) > m THEN Head(amounts) ELSE m

\* new Date().toLocaleDateString(): the day the clock is in.
LocaleDateString(t) == t \div 2

\* --------------------------------------------------------------------------
\* The receipt scanner: operations
\* --------------------------------------------------------------------------

form == <<receiptPhoto, extractedText, detectedAmounts, selectedAmount,
          merchant>>

budget == <<scansLeft, addsLeft, restartsLeft, openLimit>>

disk == <<storage, lastSaved>>

NoneIn(S) == [x \in S |-> 0]

Count(f) ==
    LET RECURSIVE Sum(_)
        Sum(S) == IF S = {} THEN 0
                  ELSE LET x == CHOOSE y \in S : TRUE
                       IN  f[x] + Sum(S \ {x})
    IN  Sum(DOMAIN f)

\* A call of AsyncStorage and the function that awaits it.
GetItem ==
    [op |-> "getItem", value |-> <<>>, caller |-> "loadExpenses",
     expenseList |-> <<>>]

\* saveExpenses(expenseList) called by fn, up to its await.
SetItem(expenseList, fn) ==
    [op |-> "setItem", value |-> JSONStringify(expenseList), caller |-> fn,
     expenseList |-> expenseList]

\* The state after the first render: every useState at its initial value,
\* and the effect has called loadExpenses, which awaits getItem.
Mounted(maxScans, maxAdds, maxRestarts, maxPickers) ==
    /\ receiptPhoto = Null
    /\ extractedText = <<>>
    /\ detectedAmounts = <<>>
    /\ selectedAmount = <<>>
    /\ merchant = <<>>
    /\ expenses = <<>>
    /\ totalSpent = Finite(0)
    /\ isProcessing = FALSE
    /\ requests = <<GetItem>>
    /\ dialog = None
    /\ ocrRuns = NoneIn(Photos)
    /\ pickers = 0
    /\ storage = None
    /\ lastSaved = None
    /\ scansLeft = maxScans
    /\ addsLeft = maxAdds
    /\ restartsLeft = maxRestarts
    /\ openLimit = maxPickers

\* What the user interface shows and lets the user press.
NoDialog == dialog = None
ButtonsEnabled == ~isProcessing
FormShown == receiptPhoto # Null /\ ~isProcessing
RetryShown == receiptPhoto # Null /\ ~isProcessing /\ extractedText # <<>>
ChipsShown == detectedAmounts # <<>> /\ ~isProcessing
AddDisabled == selectedAmount = <<>> \/ IsNaN(ParseFloat(selectedAmount))

\* The records of the Recent Expenses list: the last five.
Displayed ==
    {k \in 1..Len(expenses) : k > Len(expenses) - 5}

\* loadExpenses after getItem has returned.
LoadExpensesReturns ==
    /\ requests # <<>>
    /\ Head(requests).op = "getItem"
    /\ requests' = Tail(requests)
    /\ IF storage # None
       THEN LET expenseList == JSONParse(storage[1])
            IN  /\ expenses' = expenseList
                /\ totalSpent' = CalculateTotal(expenseList)
       ELSE UNCHANGED <<expenses, totalSpent>>
    /\ UNCHANGED <<notScanner, form, isProcessing, disk, dialog, ocrRuns, pickers,
                   budget>>

\* loadExpenses when getItem throws: the error is logged.
LoadExpensesFails ==
    /\ requests # <<>>
    /\ Head(requests).op = "getItem"
    /\ requests' = Tail(requests)
    /\ UNCHANGED <<notScanner, form, expenses, totalSpent, isProcessing, disk, dialog,
                   ocrRuns, pickers, budget>>

\* clearResults
ClearResults ==
    /\ extractedText' = <<>>
    /\ detectedAmounts' = <<>>
    /\ selectedAmount' = <<>>
    /\ merchant' = <<>>

\* clearForm
ClearForm ==
    /\ receiptPhoto' = Null
    /\ extractedText' = <<>>
    /\ detectedAmounts' = <<>>
    /\ selectedAmount' = <<>>
    /\ merchant' = <<>>

\* What follows await saveExpenses in its caller: addExpense shows the
\* Success alert and clears the form, deleteExpense returns.
AfterSave(fn) ==
    IF fn = "addExpense" THEN ClearForm ELSE UNCHANGED form

\* saveExpenses after setItem has returned, and then its caller.
SaveExpensesReturns ==
    /\ requests # <<>>
    /\ Head(requests).op = "setItem"
    /\ requests' = Tail(requests)
    /\ storage' = Some(Head(requests).value)
    /\ lastSaved' = Some(Head(requests).expenseList)
    /\ AfterSave(Head(requests).caller)
    /\ UNCHANGED <<notScanner, expenses, totalSpent, isProcessing, dialog, ocrRuns,
                   pickers, budget>>

\* saveExpenses when setItem throws: the error is logged, and the caller
\* goes on as after a save.
SaveExpensesFails ==
    /\ requests # <<>>
    /\ Head(requests).op = "setItem"
    /\ requests' = Tail(requests)
    /\ AfterSave(Head(requests).caller)
    /\ UNCHANGED <<notScanner, expenses, totalSpent, isProcessing, disk, dialog,
                   ocrRuns, pickers, budget>>

\* extractTextFromImage up to its await: setIsProcessing(true) and the call
\* of the recognizer.
StartOCR(imageUri) ==
    /\ scansLeft > 0
    /\ scansLeft' = scansLeft - 1
    /\ isProcessing' = TRUE
    /\ ocrRuns' = [ocrRuns EXCEPT ![imageUri] = @ + 1]

\* takeReceiptPhoto, permissions granted: the camera is launched.
TakeReceiptPhoto ==
    /\ NoDialog /\ ButtonsEnabled
    /\ pickers < openLimit
    /\ pickers' = pickers + 1
    /\ UNCHANGED <<notScanner, form, expenses, totalSpent, isProcessing, disk,
                   requests, dialog, ocrRuns, budget>>

\* selectFromGallery, permissions granted: the gallery is launched.
SelectFromGallery ==
    /\ NoDialog /\ ButtonsEnabled
    /\ pickers < openLimit
    /\ pickers' = pickers + 1
    /\ UNCHANGED <<notScanner, form, expenses, totalSpent, isProcessing, disk,
                   requests, dialog, ocrRuns, budget>>

\* The callback of launchCamera or of launchImageLibrary with a photo.
PickerReturnsPhoto(uri) ==
    /\ pickers > 0
    /\ pickers' = pickers - 1
    /\ receiptPhoto' = uri
    /\ ClearResults
    /\ StartOCR(uri)
    /\ UNCHANGED <<notScanner, expenses, totalSpent, disk, requests, dialog, addsLeft,
                   restartsLeft, openLimit>>

\* The callback when the user cancelled or the picker failed.
PickerReturnsNothing ==
    /\ pickers > 0
    /\ pickers' = pickers - 1
    /\ UNCHANGED <<notScanner, form, expenses, totalSpent, isProcessing, disk,
                   requests, dialog, ocrRuns, budget>>

\* retryOCR
RetryOCR ==
    /\ NoDialog /\ RetryShown
    /\ ClearResults
    /\ StartOCR(receiptPhoto)
    /\ UNCHANGED <<notScanner, receiptPhoto, expenses, totalSpent, disk, requests,
                   dialog, pickers, addsLeft, restartsLeft, openLimit>>

\* likelyTotal.toString()
LikelyTotal(amounts) ==
    CentsToString(MathMax(amounts))

\* What extractTextFromImage computes from each text of the recognizer.
AmountsOf == [text \in ReceiptTexts |-> ExtractAmountsFromText(text)]
MerchantOf == [text \in ReceiptTexts |-> CleanMerchant(text)]

\* extractTextFromImage after the recognizer has returned.
OCRReturns(imageUri, fullText) ==
    /\ ocrRuns[imageUri] > 0
    /\ ocrRuns' = [ocrRuns EXCEPT ![imageUri] = @ - 1]
    /\ extractedText' = fullText
    /\ LET amounts == AmountsOf[fullText]
       IN  /\ detectedAmounts' = amounts
           /\ selectedAmount' = IF Len(amounts) > 0 THEN LikelyTotal(amounts)
                                ELSE selectedAmount
    /\ LET cleanMerchant == MerchantOf[fullText]
       IN  merchant' = IF Len(cleanMerchant) > 0 THEN cleanMerchant
                       ELSE merchant
    /\ isProcessing' = FALSE
    /\ UNCHANGED <<notScanner, receiptPhoto, expenses, totalSpent, disk, requests,
                   dialog, pickers, budget>>

\* extractTextFromImage when the recognizer throws.
OCRFails(imageUri) ==
    /\ ocrRuns[imageUri] > 0
    /\ ocrRuns' = [ocrRuns EXCEPT ![imageUri] = @ - 1]
    /\ extractedText' = FailedToExtract
    /\ isProcessing' = FALSE
    /\ UNCHANGED <<notScanner, receiptPhoto, detectedAmounts, selectedAmount, merchant,
                   expenses, totalSpent, disk, requests, dialog, pickers,
                   budget>>

\* A detected amount is pressed.
SelectChip(k) ==
    /\ NoDialog /\ ChipsShown
    /\ selectedAmount' = CentsToString(detectedAmounts[k])
    /\ UNCHANGED <<notScanner, receiptPhoto, extractedText, detectedAmounts, merchant,
                   expenses, totalSpent, isProcessing, disk, requests,
                   dialog, ocrRuns, pickers, budget>>

\* The Amount field is edited.
TypeAmount(value) ==
    /\ NoDialog /\ FormShown
    /\ selectedAmount' = value
    /\ UNCHANGED <<notScanner, receiptPhoto, extractedText, detectedAmounts, merchant,
                   expenses, totalSpent, isProcessing, disk, requests,
                   dialog, ocrRuns, pickers, budget>>

\* The Merchant field is edited.
TypeMerchant(value) ==
    /\ NoDialog /\ FormShown
    /\ merchant' = value
    /\ UNCHANGED <<notScanner, receiptPhoto, extractedText, detectedAmounts,
                   selectedAmount, expenses, totalSpent, isProcessing,
                   disk, requests, dialog, ocrRuns, pickers, budget>>

\* The Clear button.
PressClear ==
    /\ NoDialog /\ FormShown
    /\ ClearForm
    /\ UNCHANGED <<notScanner, expenses, totalSpent, isProcessing, disk, requests,
                   dialog, ocrRuns, pickers, budget>>

\* The guard with amount < 0 in the place of amount <= 0.
NegativeAmount(text) ==
    \/ text = <<>>
    \/ IsNaN(ParseFloat(text))
    \/ ParseFloat(text).kind = "-Infinity"
    \/ ParseFloat(text).kind = "finite" /\ ParseFloat(text).cents < 0

\* !selectedAmount || isNaN(amount) || amount <= 0
InvalidAmount(text) ==
    \/ text = <<>>
    \/ IsNaN(ParseFloat(text))
    \/ ~IsPositive(ParseFloat(text))

\* merchant || 'Unknown Merchant'
MerchantName(text) ==
    IF text = <<>> THEN UnknownMerchant ELSE text

\* What the onPress handlers of the dialog close over: the values of the
\* render in which Add to Budget was pressed.
Closure ==
    [ amount |-> ParseFloat(selectedAmount),
      merchantName |-> MerchantName(merchant),
      receiptPhoto |-> receiptPhoto,
      extractedText |-> extractedText,
      expenses |-> expenses,
      selectedAmount |-> selectedAmount,
      merchant |-> merchant ]

\* addExpense: the Invalid Amount alert, or the confirmation dialog.
AddExpense ==
    /\ NoDialog /\ FormShown /\ ~AddDisabled
    /\ dialog' = IF InvalidAmount(selectedAmount) THEN dialog
                 ELSE Some(Closure)
    /\ UNCHANGED <<notScanner, form, expenses, totalSpent, isProcessing, disk,
                   requests, ocrRuns, pickers, budget>>

\* A Cancel that clears the form as well.
CancelClearsForm ==
    /\ dialog # None
    /\ dialog' = None
    /\ ClearForm
    /\ UNCHANGED <<notScanner, expenses, totalSpent, isProcessing, disk,
                   requests, ocrRuns, pickers, budget>>

\* Cancel in the dialog.
CancelAdd ==
    /\ dialog # None
    /\ dialog' = None
    /\ UNCHANGED <<notScanner, form, expenses, totalSpent, isProcessing, disk,
                   requests, ocrRuns, pickers, budget>>

\* A record built from the state at the time Add is pressed in the dialog,
\* not from what the handler closes over.
ExpenseOfState(c, t) ==
    [ id |-> NatToString(t),
      amount |-> ParseFloat(selectedAmount),
      merchant |-> MerchantName(merchant),
      date |-> LocaleDateString(t),
      photo |-> receiptPhoto,
      extractedText |-> extractedText ]

\* The record the Add handler builds.
NewExpense(c, t) ==
    [ id |-> NatToString(t),
      amount |-> c.amount,
      merchant |-> c.merchantName,
      date |-> LocaleDateString(t),
      photo |-> c.receiptPhoto,
      extractedText |-> c.extractedText ]

\* [...expenses, newExpense]
UpdatedExpenses(c, t) ==
    Append(c.expenses, NewExpense(c, t))

\* Add in the dialog, up to await saveExpenses; Date.now() returns t.
ConfirmAdd(t) ==
    /\ dialog # None
    /\ addsLeft > 0
    /\ addsLeft' = addsLeft - 1
    /\ LET updatedExpenses == UpdatedExpenses(dialog[1], t)
       IN  /\ expenses' = updatedExpenses
           /\ totalSpent' = CalculateTotal(updatedExpenses)
           /\ requests' = Append(requests,
                                 SetItem(updatedExpenses, "addExpense"))
    /\ dialog' = None
    /\ UNCHANGED <<notScanner, form, isProcessing, disk, ocrRuns, pickers, scansLeft,
                   restartsLeft, openLimit>>

\* The filter with === in the place of !==.
OnlyId(expenseList, expenseId) ==
    SelectSeq(expenseList, LAMBDA expense : expense.id = expenseId)

\* expenses.filter(expense => expense.id !== expenseId)
WithoutId(expenseList, expenseId) ==
    SelectSeq(expenseList, LAMBDA expense : expense.id # expenseId)

\* deleteExpense, up to await saveExpenses.
DeleteExpense(expenseId) ==
    /\ NoDialog
    /\ LET updatedExpenses == WithoutId(expenses, expenseId)
       IN  /\ expenses' = updatedExpenses
           /\ totalSpent' = CalculateTotal(updatedExpenses)
           /\ requests' = Append(requests,
                                 SetItem(updatedExpenses, "deleteExpense"))
    /\ UNCHANGED <<notScanner, form, isProcessing, disk, dialog, ocrRuns, pickers,
                   budget>>

\* The app is closed and started again: the state of the component and the
\* calls in flight are lost, the storage is kept.
Restart ==
    /\ restartsLeft > 0
    /\ restartsLeft' = restartsLeft - 1
    /\ receiptPhoto' = Null
    /\ extractedText' = <<>>
    /\ detectedAmounts' = <<>>
    /\ selectedAmount' = <<>>
    /\ merchant' = <<>>
    /\ expenses' = <<>>
    /\ totalSpent' = Finite(0)
    /\ isProcessing' = FALSE
    /\ requests' = <<GetItem>>
    /\ dialog' = None
    /\ ocrRuns' = NoneIn(Photos)
    /\ pickers' = 0
    /\ UNCHANGED <<notScanner, disk, scansLeft, addsLeft, openLimit>>

ScannerNext ==
    \/ LoadExpensesReturns
    \/ LoadExpensesFails
    \/ SaveExpensesReturns
    \/ SaveExpensesFails
    \/ TakeReceiptPhoto
    \/ SelectFromGallery
    \/ \E uri \in Photos : PickerReturnsPhoto(uri)
    \/ PickerReturnsNothing
    \/ RetryOCR
    \/ \E uri \in Photos, fullText \in ReceiptTexts : OCRReturns(uri, fullText)
    \/ \E uri \in Photos : OCRFails(uri)
    \/ \E k \in 1..Len(detectedAmounts) : SelectChip(k)
    \/ \E value \in TypedAmounts : TypeAmount(value)
    \/ \E value \in TypedMerchants : TypeMerchant(value)
    \/ PressClear
    \/ AddExpense
    \/ CancelAdd
    \/ \E t \in Clock : ConfirmAdd(t)
    \/ \E k \in Displayed : DeleteExpense(expenses[k].id)
    \/ Restart

\* --------------------------------------------------------------------------
\* extractAmountsFromText called on its own
\* --------------------------------------------------------------------------

\* How many fragments a text is made of at most.
MaxFragments == 4

\* What the texts are made of.
Fragments == {
    <<"$">>,
    <<"1", "2">>,
    <<"0">>,
    <<".", "3", "4">>,
    <<".", "0", "0">>,
    <<",", "0", "0", "0">>,
    <<" ">>,
    <<"\n">>,
    <<"D", "u", "e", ":">> }

\* Every text of at most MaxFragments fragments.
Texts ==
    UNION {{Flatten(parts) : parts \in [1..n -> Fragments]} : n \in 0..MaxFragments}

ExtractIdle ==
    /\ textArg = <<>>
    /\ returned = None

ExtractInit ==
    /\ textArg \in Texts
    /\ returned = None

CallExtract ==
    /\ returned = None
    /\ returned' = Some(ExtractAmountsFromText(textArg))
    /\ UNCHANGED <<notExtract, textArg>>

\* --------------------------------------------------------------------------
\* The anime converter (src/unnamed/part_000)
\* --------------------------------------------------------------------------

\* How many calls of processImageWithAI one behaviour makes at most.
MaxInference == 2

\* How many pickers of the converter are open at a time at most.
MaxLaunched == 2

ConverterPhotos == {"file:x", "file:y"}

\* The InferenceSession of the model.
ModelSession == "InferenceSession"

StatusLoading == "Loading AI model..."
StatusCopying == "Copying model from assets..."
StatusInitializing == "Initializing AI model..."
StatusReady == "AI Model Ready (input1)"
StatusFailed == "AI Model Failed to Load"

\* The first render: loadModel has set the status and awaits RNFS.exists.
ConverterInit ==
    /\ modelStatus = StatusLoading
    /\ session = Null
    /\ originalPhoto = Null
    /\ processedPhoto = Null
    /\ isConverting = FALSE
    /\ loadModel = "exists"
    /\ launched = <<>>
    /\ inference = NoneIn(ConverterPhotos)
    /\ runsLeft = MaxInference

photoVars == <<originalPhoto, processedPhoto, isConverting, launched,
               inference, runsLeft>>

\* RNFS.exists returns: the model is copied when it is not there.
ExistsReturns(fileExists) ==
    /\ loadModel = "exists"
    /\ IF fileExists
       THEN modelStatus' = StatusInitializing /\ loadModel' = "create"
       ELSE modelStatus' = StatusCopying /\ loadModel' = "copy"
    /\ UNCHANGED <<notConverter, session, photoVars>>

\* RNFS.copyFileAssets returns.
CopyReturns ==
    /\ loadModel = "copy"
    /\ modelStatus' = StatusInitializing
    /\ loadModel' = "create"
    /\ UNCHANGED <<notConverter, session, photoVars>>

\* A create whose session is stored before the load fails.
CreateThenFails ==
    /\ loadModel = "create"
    /\ session' = ModelSession
    /\ modelStatus' = StatusFailed
    /\ loadModel' = "done"
    /\ UNCHANGED <<notConverter, photoVars>>

\* InferenceSession.create returns.
CreateReturns ==
    /\ loadModel = "create"
    /\ session' = ModelSession
    /\ modelStatus' = StatusReady
    /\ loadModel' = "done"
    /\ UNCHANGED <<notConverter, photoVars>>

\* Any of the three calls throws: the catch block.
LoadModelFails ==
    /\ loadModel \in {"exists", "copy", "create"}
    /\ modelStatus' = StatusFailed
    /\ loadModel' = "done"
    /\ UNCHANGED <<notConverter, session, photoVars>>

\* takePhoto and selectFromGallery, permissions granted: the picker is
\* launched with a callback of this render.
LaunchPicker ==
    /\ ~isConverting
    /\ Len(launched) < MaxLaunched
    /\ launched' = Append(launched, session)
    /\ UNCHANGED <<notConverter, modelStatus, session, loadModel, originalPhoto,
                   processedPhoto, isConverting, inference, runsLeft>>

Without(seq, k) ==
    SubSeq(seq, 1, k - 1) \o SubSeq(seq, k + 1, Len(seq))

\* processImageWithAI up to its first await, with a session.
StartInference(imagePath) ==
    /\ runsLeft > 0
    /\ runsLeft' = runsLeft - 1
    /\ isConverting' = TRUE
    /\ inference' = [inference EXCEPT ![imagePath] = @ + 1]

\* The callback of a picker with a photo: the photo is processed when the
\* callback's render had a session.
PickerReturns(k, uri) ==
    /\ k \in 1..Len(launched)
    /\ launched' = Without(launched, k)
    /\ originalPhoto' = uri
    /\ processedPhoto' = Null
    /\ IF launched[k] # Null
       THEN StartInference(uri)
       ELSE UNCHANGED <<isConverting, inference, runsLeft>>
    /\ UNCHANGED <<notConverter, modelStatus, session, loadModel>>

\* The callback without a photo.
PickerCancelled(k) ==
    /\ k \in 1..Len(launched)
    /\ launched' = Without(launched, k)
    /\ UNCHANGED <<notConverter, modelStatus, session, loadModel, originalPhoto,
                   processedPhoto, isConverting, inference, runsLeft>>

\* processCurrentPhoto: the button is there with a photo and disabled
\* without a session or while processing.
ProcessCurrentPhoto ==
    /\ originalPhoto # Null
    /\ session # Null /\ ~isConverting
    /\ StartInference(originalPhoto)
    /\ UNCHANGED <<notConverter, modelStatus, session, loadModel, originalPhoto,
                   processedPhoto, launched>>

\* The path of a file the output of the model would be written to.
OutputPath(imagePath) == "file:output"

\* What processImageWithAI returns when nothing was thrown.
ProcessedPath(imagePath) == imagePath

\* processImageWithAI returns, and its caller sets processedPhoto.
InferenceReturns(imagePath) ==
    /\ inference[imagePath] > 0
    /\ inference' = [inference EXCEPT ![imagePath] = @ - 1]
    /\ isConverting' = FALSE
    /\ processedPhoto' = ProcessedPath(imagePath)
    /\ UNCHANGED <<notConverter, modelStatus, session, loadModel, originalPhoto, launched,
                   runsLeft>>

\* processImageWithAI throws: session.run failed or gave no output.
InferenceFails(imagePath) ==
    /\ inference[imagePath] > 0
    /\ inference' = [inference EXCEPT ![imagePath] = @ - 1]
    /\ isConverting' = FALSE
    /\ UNCHANGED <<notConverter, modelStatus, session, loadModel, originalPhoto,
                   processedPhoto, launched, runsLeft>>

\* clearPhotos
ClearPhotos ==
    /\ originalPhoto # Null \/ processedPhoto # Null
    /\ originalPhoto' = Null
    /\ processedPhoto' = Null
    /\ UNCHANGED <<notConverter, modelStatus, session, loadModel, isConverting, launched,
                   inference, runsLeft>>

ConverterNext ==
    \/ \E fileExists \in BOOLEAN : ExistsReturns(fileExists)
    \/ CopyReturns
    \/ CreateReturns
    \/ LoadModelFails
    \/ LaunchPicker
    \/ \E k \in 1..Len(launched), uri \in ConverterPhotos : PickerReturns(k, uri)
    \/ \E k \in 1..Len(launched) : PickerCancelled(k)
    \/ ProcessCurrentPhoto
    \/ \E imagePath \in ConverterPhotos : InferenceReturns(imagePath)
    \/ \E imagePath \in ConverterPhotos : InferenceFails(imagePath)
    \/ ClearPhotos

\* --------------------------------------------------------------------------
\* Specifications
\* --------------------------------------------------------------------------

ScannerInit == Mounted(MaxScans, MaxAdds, MaxRestarts, MaxPickers)

OCRInit == Mounted(MaxScansOCR, MaxAddsOCR, MaxRestartsOCR, MaxPickersOCR)

ScannerIdle == Mounted(0, 0, 0, 0)

\* The receipt scanner.
Init == ScannerInit /\ ExtractIdle /\ ConverterInit

Spec == Init /\ [][ScannerNext]_vars

\* The receipt scanner with more recognizer calls and fewer expenses.
InitOCR == OCRInit /\ ExtractIdle /\ ConverterInit

SpecOCR == InitOCR /\ [][ScannerNext]_vars

\* A call of the recognizer is answered: it returns or it throws.
OCRCompletes ==
    \/ \E uri \in Photos, fullText \in ReceiptTexts : OCRReturns(uri, fullText)
    \/ \E uri \in Photos : OCRFails(uri)

\* SpecOCR with every call of the recognizer answered in the end.
SpecOCRFair == InitOCR /\ [][ScannerNext]_vars /\ WF_vars(OCRCompletes)

\* extractAmountsFromText on every text.
InitExtract == ExtractInit /\ ScannerIdle /\ ConverterInit

SpecExtract == InitExtract /\ [][CallExtract]_vars

\* The anime converter.
InitConverter == ConverterInit /\ ScannerIdle /\ ExtractIdle

SpecConverter == InitConverter /\ [][ConverterNext]_vars

\* --------------------------------------------------------------------------
\* Properties of extractAmountsFromText (checked under SpecExtract)
\* --------------------------------------------------------------------------

\* The values of the captures that pass the filter, in the order met.
ReasonableValues(text) ==
    LET nums == [k \in 1..Len(AllCaptures(text)) |->
                    ParseFloat(RemoveCommas(AllCaptures(text)[k]))]
        kept == SelectSeq(nums, LAMBDA n : n.kind = "finite" /\ n.cents > 0
                                            /\ n.cents < 10000 * 100)
    IN  [k \in 1..Len(kept) |-> kept[k].cents]

\* The captures the filter drops.
DroppedValues(text) ==
    LET nums == [k \in 1..Len(AllCaptures(text)) |->
                    ParseFloat(RemoveCommas(AllCaptures(text)[k]))]
    IN  SelectSeq(nums, LAMBDA n : ~(n.kind = "finite" /\ n.cents > 0
                                       /\ n.cents < 10000 * 100))

\* C2: the array extractAmountsFromText returns is in strictly descending
\* order: each element is greater than the one after it, so no value
\* appears twice.
C2_StrictlyDescending ==
    returned # None =>
        \A k \in 1..(Len(returned[1]) - 1) : returned[1][k] > returned[1][k + 1]

\* C2 happens: the call has returned two or more amounts for a text in
\* which one value was captured more than once.
C2_Witness ==
    /\ returned # None
    /\ Len(returned[1]) >= 2
    /\ LET vals == ReasonableValues(textArg)
       IN  \E i, j \in 1..Len(vals) : i < j /\ vals[i] = vals[j]

\* C3: every amount extractAmountsFromText returns is greater than 0 and
\* less than 10000 (dollars; the model counts cents).
C3_WithinLimits ==
    returned # None =>
        \A k \in 1..Len(returned[1]) :
            returned[1][k] > 0 /\ returned[1][k] < 10000 * 100

\* C3 happens: the call has returned amounts for a text of which a capture
\* was outside the limits.
C3_Witness ==
    /\ returned # None
    /\ returned[1] # <<>>
    /\ DroppedValues(textArg) # <<>>

\* A text that is one dollar amount with cents: "$", digits and commas, a
\* point and two digits.
IsDollarsAndCents(text) ==
    /\ Len(text) >= 5
    /\ text[1] = "$"
    /\ IsDigit(text[2])
    /\ \A k \in 2..(Len(text) - 3) : IsDigit(text[k]) \/ text[k] = ","
    /\ text[Len(text) - 2] = "."
    /\ IsDigit(text[Len(text) - 1]) /\ IsDigit(text[Len(text)])

\* The value such a text reads as, in cents.
FullValue(text) ==
    ParseFloat(RemoveCommas(SubSeq(text, 2, Len(text)))).cents

\* C8: the second pattern matches whole-dollar amounts only, so for a text
\* that is a dollar amount with cents (as "$12.34" or "$1234.56")
\* extractAmountsFromText returns nothing but the full value: never the
\* value of a leading part of its digits.
C8_WholeDollarsOnly ==
    (returned # None /\ IsDollarsAndCents(textArg)) =>
        \A k \in 1..Len(returned[1]) : returned[1][k] = FullValue(textArg)

\* --------------------------------------------------------------------------
\* Properties of the anime converter (checked under SpecConverter)
\* --------------------------------------------------------------------------

\* C7: whenever processImageWithAI completes without error it returns the
\* path it was given, so the step on which a run of a photo returns sets
\* processedPhoto to the path of that photo.
C7_ReturnsGivenPath ==
    [][\A imagePath \in ConverterPhotos :
          InferenceReturns(imagePath) => processedPhoto' = imagePath]_vars

\* C7 happens: a run has returned and set processedPhoto.
C7_Witness ==
    /\ processedPhoto # Null
    /\ runsLeft < MaxInference

\* --------------------------------------------------------------------------
\* Properties of the receipt scanner (checked under Spec and SpecOCR)
\* --------------------------------------------------------------------------

\* The number an amount counts as in a sum: a record without an amount
\* (null) counts as 0.
AmountOf(expense) ==
    IF expense.amount.kind = "null" THEN Finite(0) ELSE expense.amount

RECURSIVE SumOfAmounts(_)
\* The sum of the amounts of a list of records.
SumOfAmounts(list) ==
    IF list = <<>> THEN Finite(0)
    ELSE Plus(SumOfAmounts(SubSeq(list, 1, Len(list) - 1)),
              AmountOf(list[Len(list)]))

\* C1: totalSpent equals the sum of the amounts of the records of the
\* in-memory expenses list, in every state.
C1_TotalIsSum ==
    totalSpent = SumOfAmounts(expenses)

\* C1 happens: two records of different amounts are in the list, and a
\* write of the list has succeeded.
C1_Witness ==
    /\ Len(expenses) = 2
    /\ expenses[1].amount.kind = "finite"
    /\ expenses[2].amount.kind = "finite"
    /\ expenses[1].amount # expenses[2].amount
    /\ storage # None

\* Nothing is pending: no storage call, no dialog, no picker, no recognizer.
Quiet ==
    /\ requests = <<>>
    /\ dialog = None
    /\ pickers = 0
    /\ Count(ocrRuns) = 0

\* C4: on the step the storage write of an addExpense or deleteExpense
\* succeeds and leaves nothing pending, the value stored under 'expenses' is
\* the serialisation of the in-memory expenses list.
C4_StoredIsExpenses ==
    [][(SaveExpensesReturns /\ Quiet') =>
          storage' = Some(JSONStringify(expenses'))]_vars

\* C5: when loadExpenses finds a stored list, it sets expenses to the list
\* that was last saved, the same records in the same order, and totalSpent
\* to its sum.
C5_RoundTrip ==
    [][(LoadExpensesReturns /\ storage # None) =>
          /\ expenses' = lastSaved[1]
          /\ totalSpent' = SumOfAmounts(lastSaved[1])]_vars

\* C6: the dialog keeps the values of the form at the press of Add to
\* Budget, and the record a confirmed add appends has the parsed
\* selectedAmount of that moment as amount, the merchant field of that
\* moment or 'Unknown Merchant' when it was empty as merchant, and the
\* receiptPhoto and the extractedText of that moment.
C6_RecordHoldsForm ==
    [][/\ (AddExpense /\ dialog' # None) =>
              /\ dialog'[1].selectedAmount = selectedAmount
              /\ dialog'[1].merchant = merchant
              /\ dialog'[1].receiptPhoto = receiptPhoto
              /\ dialog'[1].extractedText = extractedText
       /\ \A t \in Clock : ConfirmAdd(t) =>
              LET pressed == dialog[1]
                  record == expenses'[Len(expenses')]
              IN  /\ record.amount = ParseFloat(pressed.selectedAmount)
                  /\ record.merchant = (IF pressed.merchant = <<>>
                                        THEN UnknownMerchant
                                        ELSE pressed.merchant)
                  /\ record.photo = pressed.receiptPhoto
                  /\ record.extractedText = pressed.extractedText]_vars

\* C6 happens: a record was added in this run of the app with an amount the
\* recognizer detected and the merchant field empty, and the form has been
\* cleared since.
C6_Witness ==
    /\ expenses # <<>>
    /\ addsLeft < MaxAddsOCR
    /\ restartsLeft = MaxRestartsOCR
    /\ expenses[Len(expenses)].merchant = UnknownMerchant
    /\ expenses[Len(expenses)].amount.kind = "finite"
    /\ expenses[Len(expenses)].photo \in Photos
    /\ receiptPhoto = Null

\* C9: on the step an OCR run succeeds, selectedAmount becomes the string
\* of the highest detected amount, the first element of detectedAmounts,
\* when an amount was detected, and is empty when none was.
C9_SelectsHighest ==
    [][\A uri \in Photos, fullText \in ReceiptTexts :
          OCRReturns(uri, fullText) =>
              IF detectedAmounts' # <<>>
              THEN /\ selectedAmount' = CentsToString(detectedAmounts'[1])
                   /\ \A k \in 1..Len(detectedAmounts') :
                          detectedAmounts'[1] >= detectedAmounts'[k]
              ELSE selectedAmount' = <<>>]_vars

\* The amounts addExpense is to reject: the field is empty, does not parse
\* to a number, or parses to a value that is 0 or less.
Rejected(text) ==
    \/ text = <<>>
    \/ ParseFloat(text).kind \in {"NaN", "-Infinity"}
    \/ ParseFloat(text).kind = "finite" /\ ParseFloat(text).cents <= 0

\* C10: addExpense with an amount to reject opens no dialog and leaves
\* expenses, totalSpent, the stored list and the form unchanged, and every
\* record a confirmed add appends has an amount greater than 0.
C10_RejectsInvalid ==
    [][/\ (AddExpense /\ Rejected(selectedAmount)) =>
              UNCHANGED <<dialog, expenses, totalSpent, storage, requests,
                          form>>
       /\ \A t \in Clock : ConfirmAdd(t) =>
              LET amount == expenses'[Len(expenses')].amount
              IN  \/ amount.kind = "Infinity"
                  \/ amount.kind = "finite" /\ amount.cents > 0]_vars

\* C10 happens: Add to Budget can be pressed with the amount 0 in the
\* field, and a record was added before.
C10_Witness ==
    /\ NoDialog /\ FormShown /\ ~AddDisabled
    /\ Rejected(selectedAmount)
    /\ expenses # <<>>
    /\ addsLeft < MaxAddsOCR
    /\ restartsLeft = MaxRestartsOCR

\* C11: choosing Cancel in the confirmation dialog leaves expenses,
\* totalSpent, the stored list, receiptPhoto, extractedText,
\* detectedAmounts, selectedAmount and merchant as they are.
C11_CancelChangesNothing ==
    [][CancelAdd =>
          UNCHANGED <<expenses, totalSpent, storage, receiptPhoto,
                      extractedText, detectedAmounts, selectedAmount,
                      merchant>>]_vars

\* C11 happens: the dialog is open, so Cancel can be chosen, with a list in
\* memory and in storage and a form that is filled in.
C11_Witness ==
    /\ dialog # None
    /\ expenses # <<>>
    /\ storage # None
    /\ receiptPhoto # Null
    /\ detectedAmounts # <<>>
    /\ selectedAmount # <<>>
    /\ merchant # <<>>

\* The form is cleared.
FormCleared ==
    /\ receiptPhoto = Null
    /\ extractedText = <<>>
    /\ detectedAmounts = <<>>
    /\ selectedAmount = <<>>
    /\ merchant = <<>>

\* C12: choosing Add in the confirmation dialog appends exactly one record
\* at the end of the expenses list, the earlier records staying as they
\* were and in their order, and when the handler has finished (its write
\* returned or failed) the form is cleared.
C12_AddAppendsOne ==
    [][/\ \A t \in Clock : ConfirmAdd(t) =>
              /\ Len(expenses') = Len(expenses) + 1
              /\ SubSeq(expenses', 1, Len(expenses)) = expenses
       /\ ((SaveExpensesReturns \/ SaveExpensesFails)
              /\ Head(requests).caller = "addExpense") => FormCleared']_vars

\* No two records of the list have the same id.
DistinctIds(list) ==
    \A i, j \in 1..Len(list) : i # j => list[i].id # list[j].id

C16_OneRunInFlight ==
    /\ Count(ocrRuns) <= 1
    /\ Count(ocrRuns) > 0 => isProcessing

\* C14: every OCR run that starts sets isProcessing to true; the run that
\* returns or throws sets it back to false, so that, every call of the
\* recognizer being answered, a run in flight leads to isProcessing being
\* false; and the run that throws sets extractedText to 'Failed to extract
\* text from image' while detectedAmounts, selectedAmount and merchant are
\* still empty, as they were cleared before the run.
C14_ProcessingAndFailure ==
    /\ [][/\ (\E uri \in Photos : PickerReturnsPhoto(uri)) => isProcessing'
          /\ RetryOCR => isProcessing'
          /\ OCRCompletes => ~isProcessing'
          /\ (\E uri \in Photos : OCRFails(uri)) =>
                 /\ extractedText' = FailedToExtract
                 /\ detectedAmounts' = <<>>
                 /\ selectedAmount' = <<>>
                 /\ merchant' = <<>>]_vars
    /\ (Count(ocrRuns) > 0) ~> ~isProcessing

\* --------------------------------------------------------------------------
\* Properties of loadModel (checked under SpecConverter)
\* --------------------------------------------------------------------------

\* The statuses loadModel may set next, after each status.
NextStatuses(status) ==
    IF status = StatusLoading THEN {StatusCopying, StatusInitializing, StatusFailed}
    ELSE IF status = StatusCopying THEN {StatusInitializing, StatusFailed}
    ELSE IF status = StatusInitializing THEN {StatusReady, StatusFailed}
    ELSE {}

\* C15: modelStatus moves from 'Loading AI model...' through 'Copying model
\* from assets...', set only when RNFS.exists has returned false, and
\* 'Initializing AI model...' to one final status, Ready or Failed, which
\* never changes afterwards; in every state session is non-null only if
\* modelStatus is the Ready status, and after a failure session stays null.
C15_LoadModelStatus ==
    /\ [](session # Null => modelStatus = StatusReady)
    /\ [](modelStatus = StatusFailed => session = Null)
    /\ [][/\ modelStatus' # modelStatus => modelStatus' \in NextStatuses(modelStatus)
          /\ modelStatus' = StatusCopying /\ modelStatus # StatusCopying
                 => ExistsReturns(FALSE)
          /\ session' # session
                 => session = Null /\ session' = ModelSession /\ CreateReturns
          /\ LoadModelFails => modelStatus' = StatusFailed /\ session' = Null]_vars

\* The model has been copied and created, and a picker was opened after it.
C15_Witness ==
    /\ modelStatus = StatusReady
    /\ session = ModelSession
    /\ loadModel = "done"
    /\ launched # <<>>
    /\ launched[Len(launched)] = ModelSession

====
